---- MODULE Spec2Model ----
(***************************************************************************)
(* Model of scripts_eng/make_depth_3d_folder.py: the chunk partitioner     *)
(* (extract_frames), the per-chunk frame pipeline (chunk_processing) and   *)
(* the admission loop of run_processing around a ThreadPoolExecutor.       *)
(***************************************************************************)
EXTENDS Integers, Sequences, FiniteSets, TLC

\* ---------------------------------------------------------------- bounds
MaxFrames == 4
MaxChunkSize == 2
MaxThreads == 2
MaxWidth == 3
MaxHeight == 2
MaxScale == 4
MaxPad == 2

\* the top of the 8-bit depth range
DepthMax == 255

\* sampled depth values: near, middle, far
DepthValues == {0, 128, DepthMax}

\* sampled parallax scales: none, one pixel, more than MaxWidth pixels
ScaleValues == {0, 1, MaxScale}

\* ------------------------------------------------------- the environment
\* What a source file does to the pipeline: "ok" decodes and encodes,
\* "corrupt" makes cv2.imread return None, "cfail" decodes and gets its
\* depth map but makes image3d_processing raise before the file is written
\* (the second imread, the warp, image_size_correction into a smaller
\* target, cv2.resize to an empty half size, or cv2.imwrite raising),
\* "wfail" makes cv2.imwrite return False.
Kinds == {"ok", "corrupt", "cfail", "wfail"}

\* A directory listing of L distinct file names <<base, extension>>; with
\* dup the first two files share their base name.
Listing(L, dup) ==
    [i \in 1..L |-> IF dup /\ i = 2 THEN <<1, "jpg">> ELSE <<i, "png">>]

Range(s) == {s[i] : i \in 1..Len(s)}

Min(a, b) == IF a < b THEN a ELSE b

Max(a, b) == IF a > b THEN a ELSE b

VARIABLES
    all_frames_in_directory,  \* listing taken at module load
    file_kind,                \* environment: behaviour of each source file
    chunk_size,
    max_threads,
    frame_counter,
    threads_count,
    src_files,                \* files present in frames_dir
    images3d,                 \* files present in images3d_dir: <<base, source>>
    write_ok,                 \* frames whose cv2.imwrite returned True
    run_pc,                   \* position of run_processing / the main script
    total_frames,
    start_frame,
    futures,                  \* submitted chunks, in submission order
    next_future,              \* index of the future run_processing waits on
    exc,                      \* exception propagating out of run_processing
    PARALLAX_SCALE,
    TYPE3D,
    LEFT_RIGHT,
    new_width,
    new_height,
    image,                    \* the decoded frame: image[y][x], 0-based
    depth,                    \* the 8-bit depth map at the image's resolution
    img_pc,                   \* position of image3d_processing
    height,
    width,
    shift_left,               \* x sampling map of the left eye, in 1/255 pixel
    shift_right,              \* x sampling map of the right eye, in 1/255 pixel
    map_y,                    \* y sampling map (the meshgrid y), in pixels
    left_image,
    right_image,
    margins,                  \* top, bottom, left, right of image_size_correction
    image3d                   \* shape and eye order of the combined image

vars == <<all_frames_in_directory, file_kind, chunk_size, max_threads,
          frame_counter, threads_count, src_files, images3d, write_ok,
          run_pc, total_frames, start_frame, futures, next_future, exc,
          PARALLAX_SCALE, TYPE3D, LEFT_RIGHT, new_width, new_height, image, depth,
          img_pc, height, width, shift_left, shift_right, map_y, left_image,
          right_image, margins, image3d>>

\* the 3D parameters and the frame image3d_processing works on
options3d == <<PARALLAX_SCALE, TYPE3D, LEFT_RIGHT, new_width, new_height, image, depth>>

\* the locals of image3d_processing
locals3d == <<img_pc, height, width, shift_left, shift_right, map_y, left_image,
              right_image, margins, image3d>>

\* the chunk pipeline's state
pipeline == <<all_frames_in_directory, file_kind, chunk_size, max_threads,
              frame_counter, threads_count, src_files, images3d, write_ok,
              run_pc, total_frames, start_frame, futures, next_future, exc>>

env == <<all_frames_in_directory, file_kind, chunk_size, max_threads, options3d, locals3d>>

\* ------------------------------------------------------ helper operators
\* os.path.splitext(os.path.basename(frame_path))[0]
frame_name(frame_path) == frame_path[1]

\* a bound of a Python slice of a list of n entries: a negative bound
\* counts from the end, and the result is clamped to 0..n
PyBound(b, n) == IF b < 0 THEN Max(b + n, 0) ELSE Min(b, n)

\* the Python slice s[from:to]
PySlice(s, from, to) ==
    LET lo == PyBound(from, Len(s))
        hi == PyBound(to, Len(s))
    IN  IF lo >= hi THEN << >> ELSE SubSeq(s, lo + 1, hi)

\* the slice taken with end_frame exclusive
extract_framesExclusive(start, end) == PySlice(all_frames_in_directory, start, end)

\* the slice started one entry too early
extract_framesOverlap(start, end) == PySlice(all_frames_in_directory, start - 1, end + 1)

\* the list extract_frames returns for start_frame..end_frame (inclusive)
extract_frames(start, end) == PySlice(all_frames_in_directory, start, end + 1)

\* the end of the chunk taken without the cap at the last frame
EndFrameUncapped(start, size, total) == start + size - 1

\* end_frame = min(start_frame + chunk_size - 1, total_frames - 1)
EndFrame(start, size, total) == Min(start + size - 1, total - 1)

\* the admission test written with <= instead of <
CanAdmitLeq(count, limit) == count <= limit

\* if threads_count.value < max_threads
CanAdmit(count, limit) == count < limit

\* an admission that forgets to count the chunk
AdmitIncNone(count) == count

\* threads_count.value += 1
AdmitInc(count) == count + 1

\* the release floored at 0
ReleaseFloorZero(count) == Max(0, count - 1)

\* threads_count.value = max(1, threads_count.value - 1)
Release(count) == Max(1, count - 1)

\* a future taken as complete as soon as its chunk has started
FinishedStarted(f) == f.pc # "queued"

\* a future whose chunk_processing call has returned or raised
Finished(f) == f.pc \in {"done", "failed"}

\* chunks the executor's worker threads are currently running
Running == {k \in 1..Len(futures) : futures[k].pc \notin {"queued", "done", "failed"}}

\* ------------------------------------------------------------------ Init
Init ==
    /\ \E L \in 0..MaxFrames, dup \in BOOLEAN :
          /\ dup => L >= 2
          /\ all_frames_in_directory = Listing(L, dup)
    /\ file_kind \in [Range(all_frames_in_directory) -> Kinds]
    /\ chunk_size \in 1..MaxChunkSize
    /\ max_threads \in 1..MaxThreads
    /\ frame_counter = 0
    /\ threads_count = 0
    /\ src_files = Range(all_frames_in_directory)
    /\ images3d = {}
    /\ write_ok = {}
    /\ run_pc = "start"
    /\ total_frames = 0
    /\ start_frame = 0
    /\ futures = << >>
    /\ next_future = 1
    /\ exc = "none"
    /\ PARALLAX_SCALE = 0
    /\ TYPE3D = "FSBS"
    /\ LEFT_RIGHT = "LEFT"
    /\ new_width = 0
    /\ new_height = 0
    /\ image = << >>
    /\ depth = << >>
    /\ img_pc = "idle"
    /\ height = 0
    /\ width = 0
    /\ shift_left = << >>
    /\ shift_right = << >>
    /\ map_y = << >>
    /\ left_image = << >>
    /\ right_image = << >>
    /\ margins = << >>
    /\ image3d = << >>

\* -------------------------------------------------------- run_processing
\* total_frames = len([...]); if total_frames: enter the executor and loop
CountFrames ==
    /\ run_pc = "start"
    /\ total_frames' = Cardinality(src_files)
    /\ run_pc' = IF total_frames' # 0 THEN "check" ELSE "returned"
    /\ UNCHANGED <<env, frame_counter, threads_count, src_files, images3d,
                   write_ok, start_frame, futures, next_future, exc>>

\* one pass of "while True": admitted under the lock, or time.sleep(5),
\* which raises NameError because the module never imports time
Admit ==
    /\ run_pc = "check"
    /\ IF CanAdmit(threads_count, max_threads)
          THEN /\ threads_count' = AdmitInc(threads_count)
               /\ run_pc' = "admitted"
               /\ exc' = exc
          ELSE /\ threads_count' = threads_count
               /\ run_pc' = "raising"
               /\ exc' = "NameError"
    /\ UNCHANGED <<env, frame_counter, src_files, images3d, write_ok,
                   total_frames, start_frame, futures, next_future>>

\* end_frame and the first half of extract_frames: frame_counter is
\* raised by frames_to_process under its lock, and the lock is released
CountExtracted ==
    /\ run_pc = "admitted"
    /\ LET end_frame == EndFrame(start_frame, chunk_size, total_frames)
           frames_to_process == end_frame - start_frame + 1
       IN  frame_counter' = frame_counter + frames_to_process
    /\ run_pc' = "counted"
    /\ UNCHANGED <<env, threads_count, src_files, images3d, write_ok,
                   total_frames, start_frame, futures, next_future, exc>>

\* the slice of extract_frames, executor.submit, futures.append, next start
Submit ==
    /\ run_pc = "counted"
    /\ LET end_frame == EndFrame(start_frame, chunk_size, total_frames)
       IN  futures' = Append(futures,
                  [frames |-> extract_frames(start_frame, end_frame),
                   pc |-> "queued", i |-> 1])
    /\ start_frame' = start_frame + chunk_size
    /\ run_pc' = IF start_frame' < total_frames THEN "check" ELSE "wait"
    /\ UNCHANGED <<env, frame_counter, threads_count, src_files, images3d, write_ok,
                   total_frames, next_future, exc>>

\* for future in futures: future.result()
WaitFuture ==
    /\ run_pc = "wait"
    /\ next_future <= Len(futures)
    /\ Finished(futures[next_future])
    /\ IF futures[next_future].pc = "failed"
          THEN /\ run_pc' = "raising"
               /\ exc' = "FrameError"
               /\ next_future' = next_future
          ELSE /\ next_future' = next_future + 1
               /\ run_pc' = IF next_future' > Len(futures) THEN "exit" ELSE "wait"
               /\ exc' = exc
    /\ UNCHANGED <<env, frame_counter, threads_count, src_files, images3d,
                   write_ok, total_frames, start_frame, futures>>

\* leaving "with ThreadPoolExecutor(...)": shutdown(wait=True), then the
\* function returns or the pending exception leaves it
ExecutorExit ==
    /\ run_pc \in {"exit", "raising"}
    /\ \A k \in 1..Len(futures) : Finished(futures[k])
    /\ run_pc' = IF run_pc = "exit" THEN "returned" ELSE "raised"
    /\ UNCHANGED <<env, frame_counter, threads_count, src_files, images3d,
                   write_ok, total_frames, start_frame, futures, next_future, exc>>

\* print("DONE.")
PrintDone ==
    /\ run_pc = "returned"
    /\ run_pc' = "done"
    /\ UNCHANGED <<env, frame_counter, threads_count, src_files, images3d,
                   write_ok, total_frames, start_frame, futures, next_future, exc>>

\* ------------------------------------------------------ chunk_processing
\* the position after frame i of chunk f: the next frame or the release
AfterFrame(f) ==
    IF f.i < Len(f.frames) THEN [f EXCEPT !.i = f.i + 1, !.pc = "depth"]
                           ELSE [f EXCEPT !.pc = "release"]

\* a worker thread of the executor picks the chunk up
StartChunk(k) ==
    /\ k \in 1..Len(futures)
    /\ futures[k].pc = "queued"
    /\ Cardinality(Running) < max_threads
    /\ futures' = [futures EXCEPT ![k] =
          IF Len(@.frames) = 0 THEN [@ EXCEPT !.pc = "release"]
                               ELSE [@ EXCEPT !.pc = "depth"]]
    /\ UNCHANGED <<env, frame_counter, threads_count, src_files, images3d,
                   write_ok, run_pc, total_frames, start_frame, next_future, exc>>

\* a pipeline that swallows the error of an unreadable image and goes on
\* to the removal of the source
DepthStepSwallow(k) ==
    /\ k \in 1..Len(futures)
    /\ futures[k].pc = "depth"
    /\ LET f == futures[k]
           frame_path == f.frames[f.i]
       IN  futures' = [futures EXCEPT ![k] =
              IF frame_path \notin src_files THEN AfterFrame(f)
              ELSE IF file_kind[frame_path] = "corrupt" THEN [f EXCEPT !.pc = "remove"]
              ELSE [f EXCEPT !.pc = "image3d"]]
    /\ UNCHANGED <<env, frame_counter, threads_count, src_files, images3d,
                   write_ok, run_pc, total_frames, start_frame, next_future, exc>>

\* isfile check and depth_processing; an unreadable image raises and the
\* exception leaves chunk_processing
DepthStep(k) ==
    /\ k \in 1..Len(futures)
    /\ futures[k].pc = "depth"
    /\ LET f == futures[k]
           frame_path == f.frames[f.i]
       IN  futures' = [futures EXCEPT ![k] =
              IF frame_path \notin src_files THEN AfterFrame(f)
              ELSE IF file_kind[frame_path] = "corrupt" THEN [f EXCEPT !.pc = "failed"]
              ELSE [f EXCEPT !.pc = "image3d"]]
    /\ UNCHANGED <<env, frame_counter, threads_count, src_files, images3d,
                   write_ok, run_pc, total_frames, start_frame, next_future, exc>>

\* image3d_processing: an error in the warp or the composite leaves
\* chunk_processing; otherwise cv2.imwrite to images3d_dir/<frame_name>.jpg,
\* whose boolean result is discarded
Image3dStep(k) ==
    /\ k \in 1..Len(futures)
    /\ futures[k].pc = "image3d"
    /\ LET f == futures[k]
           frame_path == f.frames[f.i]
       IN  /\ IF file_kind[frame_path] \in {"wfail", "cfail"}
                 THEN UNCHANGED <<images3d, write_ok>>
                 ELSE /\ images3d' = {o \in images3d : o[1] # frame_name(frame_path)}
                                       \cup {<<frame_name(frame_path), frame_path>>}
                      /\ write_ok' = write_ok \cup {frame_path}
           /\ futures' = [futures EXCEPT ![k] =
                 IF file_kind[frame_path] = "cfail" THEN [f EXCEPT !.pc = "failed"]
                                                   ELSE [f EXCEPT !.pc = "remove"]]
    /\ UNCHANGED <<env, frame_counter, threads_count, src_files,
                   run_pc, total_frames, start_frame, next_future, exc>>

\* a worker that moves on to the next frame and leaves the removal undone
RemoveStepDeferred(k) ==
    /\ k \in 1..Len(futures)
    /\ futures[k].pc = "remove"
    /\ futures' = [futures EXCEPT ![k] = AfterFrame(futures[k])]
    /\ UNCHANGED <<env, frame_counter, threads_count, src_files, images3d, write_ok,
                   run_pc, total_frames, start_frame, next_future, exc>>

\* os.remove(frame_path)
RemoveStep(k) ==
    /\ k \in 1..Len(futures)
    /\ futures[k].pc = "remove"
    /\ LET f == futures[k]
       IN  /\ src_files' = src_files \ {f.frames[f.i]}
           /\ futures' = [futures EXCEPT ![k] = AfterFrame(f)]
    /\ UNCHANGED <<env, frame_counter, threads_count, images3d, write_ok,
                   run_pc, total_frames, start_frame, next_future, exc>>

\* with threads_count.get_lock(): threads_count.value = max(1, value - 1)
ReleaseStep(k) ==
    /\ k \in 1..Len(futures)
    /\ futures[k].pc = "release"
    /\ threads_count' = Release(threads_count)
    /\ futures' = [futures EXCEPT ![k] = [@ EXCEPT !.pc = "returning"]]
    /\ UNCHANGED <<env, frame_counter, src_files, images3d, write_ok,
                   run_pc, total_frames, start_frame, next_future, exc>>

\* chunk_processing returns after the lock is released and the executor
\* resolves the future; the worker thread is free again
ReturnStep(k) ==
    /\ k \in 1..Len(futures)
    /\ futures[k].pc = "returning"
    /\ futures' = [futures EXCEPT ![k] = [@ EXCEPT !.pc = "done"]]
    /\ UNCHANGED <<env, frame_counter, threads_count, src_files, images3d, write_ok,
                   run_pc, total_frames, start_frame, next_future, exc>>

\* --------------------------------------------------------- specification
Main == CountFrames \/ Admit \/ CountExtracted \/ Submit \/ WaitFuture \/ ExecutorExit \/ PrintDone

Worker(k) == StartChunk(k) \/ DepthStep(k) \/ Image3dStep(k) \/ RemoveStep(k) \/ ReleaseStep(k)
                \/ ReturnStep(k)

Next ==
    \/ CountFrames
    \/ Admit
    \/ CountExtracted
    \/ Submit
    \/ WaitFuture
    \/ ExecutorExit
    \/ PrintDone
    \/ \E k \in 1..MaxFrames : StartChunk(k)
    \/ \E k \in 1..MaxFrames : DepthStep(k)
    \/ \E k \in 1..MaxFrames : Image3dStep(k)
    \/ \E k \in 1..MaxFrames : RemoveStep(k)
    \/ \E k \in 1..MaxFrames : ReleaseStep(k)
    \/ \E k \in 1..MaxFrames : ReturnStep(k)

Spec == Init /\ [][Next]_vars

\* the main thread and every worker thread keep running when they can
FairSpec == Spec /\ WF_vars(Main) /\ \A k \in 1..MaxFrames : WF_vars(Worker(k))

TypeOK ==
    /\ threads_count \in Int
    /\ frame_counter \in Nat
    /\ run_pc \in {"start", "check", "admitted", "counted", "wait", "exit", "raising",
                   "returned", "raised", "done"}
    /\ exc \in {"none", "NameError", "FrameError"}

\* ---------------------------------------------------- image3d_processing
\* Coordinates of the sampling maps are kept exact, in units of 1/255
\* pixel: x + (depth / 255.0) * PARALLAX_SCALE is x * 255 + depth * scale.

\* the pixel of the source image at row y, column x; a sample between two
\* columns lo and hi of row y at fraction fr/255 is <<y, lo, hi, fr>>
Pixel(y, x) == <<y, x, x, 0>>

\* a pixel of np.zeros
Black == <<-1, -1, -1, 0>>

\* cv2.imread(frame_path) for a frame of h rows and w columns
SourceImage(h, w) == [y \in 0..(h - 1) |-> [x \in 0..(w - 1) |-> Pixel(y, x)]]

\* image.shape
ShapeOf(img) == [height |-> Cardinality(DOMAIN img),
                 width |-> IF Cardinality(DOMAIN img) = 0 THEN 0
                           ELSE Cardinality(DOMAIN img[0])]

\* np.clip
Clip(v, lo, hi) == Min(Max(v, lo), hi)

\* a parallax whose scale is floored at one pixel
ParallaxAtLeastOne(d, scale) == d * Max(scale, 1)

\* parallax = depth * PARALLAX_SCALE, for a depth value d of 0..255
Parallax(d, scale) == d * scale

\* the left map clipped to width instead of width - 1
ShiftLeftAtWidth(x, par, w) == Clip(x * DepthMax + par, 0, w * DepthMax)

\* shift_left = np.clip(x + parallax, 0, width - 1)
ShiftLeftAt(x, par, w) == Clip(x * DepthMax + par, 0, (w - 1) * DepthMax)

\* shift_right = np.clip(x - parallax, 0, width - 1)
ShiftRightAt(x, par, w) == Clip(x * DepthMax - par, 0, (w - 1) * DepthMax)

\* the value cv2.remap reads at x coordinate cx (1/255 pixel) of row cy
Sample(img, cx, cy) ==
    LET x0 == cx \div DepthMax
        fr == cx % DepthMax
    IN  IF fr = 0 THEN img[cy][x0] ELSE <<cy, x0, x0 + 1, fr>>

\* cv2.remap(image, map_x, y)
Remap(img, map_x, map_yy) ==
    [y \in DOMAIN map_x |-> [x \in DOMAIN map_x[y] |-> Sample(img, map_x[y][x], map_yy[y][x])]]

\* the centering offsets rounded up instead of down
MarginsCeil(current_height, current_width, nh, nw) ==
    LET top == (nh - current_height + 1) \div 2
        left == (nw - current_width + 1) \div 2
    IN  [top |-> top, bottom |-> nh - current_height - top,
         left |-> left, right |-> nw - current_width - left]

\* top, bottom, left, right of image_size_correction
Margins(current_height, current_width, nh, nw) ==
    LET top == (nh - current_height) \div 2
        left == (nw - current_width) \div 2
    IN  [top |-> top, bottom |-> nh - current_height - top,
         left |-> left, right |-> nw - current_width - left]

\* the black canvas of nh x nw with img placed at [top:top+h, left:left+w]
Canvas(img, m, current_height, current_width, nh, nw) ==
    [y \in 0..(nh - 1) |-> [x \in 0..(nw - 1) |->
        IF /\ m.top <= y /\ y < m.top + current_height
           /\ m.left <= x /\ x < m.left + current_width
        THEN img[y - m.top][x - m.left]
        ELSE Black]]

\* cv2.resize(img, (w, h)) raises when the requested size is empty
ResizeFails(w, h) == w <= 0 \/ h <= 0

\* the shape of cv2.resize(img, (w, h))
ResizeShape(w, h) == [height |-> h, width |-> w]

\* the shape of np.hstack((a, b))
HStack(a, b) == [height |-> a.height, width |-> a.width + b.width]

\* the shape of np.vstack((a, b))
VStack(a, b) == [height |-> a.height + b.height, width |-> a.width]

\* the resize of the half layouts fails
CombineFails(type, h, w) ==
    \/ type = "HSBS" /\ ResizeFails(w \div 2, h)
    \/ type = "HOU" /\ ResizeFails(w, h \div 2)

\* the shape of image3d for two eye images of h x w
Image3dShape(type, h, w) ==
    CASE type = "HSBS" -> HStack(ResizeShape(w \div 2, h), ResizeShape(w \div 2, h))
      [] type = "HOU"  -> VStack(ResizeShape(w, h \div 2), ResizeShape(w, h \div 2))
      [] type = "FSBS" -> HStack([height |-> h, width |-> w], [height |-> h, width |-> w])
      [] type = "FOU"  -> VStack([height |-> h, width |-> w], [height |-> h, width |-> w])

\* one frame in the source folder, its depth map and the 3D options; the
\* chunk pipeline is idle
ImgInit ==
    /\ \E h \in 1..MaxHeight, w \in 1..MaxWidth :
          /\ image = SourceImage(h, w)
          /\ \E profile \in [0..(w - 1) -> DepthValues] :
                depth = [y \in 0..(h - 1) |-> profile]
          /\ \E pad \in {<<0, 0>>, <<0, h + 1>>}
                        \cup {<<w + dw, h + dh>> : dw \in 0..MaxPad, dh \in 0..MaxPad} :
                /\ new_width = pad[1]
                /\ new_height = pad[2]
    /\ PARALLAX_SCALE \in ScaleValues
    /\ TYPE3D \in {"HSBS", "FSBS", "HOU", "FOU"}
    /\ LEFT_RIGHT \in {"LEFT", "RIGHT"}
    /\ img_pc = "load"
    /\ height = 0
    /\ width = 0
    /\ shift_left = << >>
    /\ shift_right = << >>
    /\ map_y = << >>
    /\ left_image = << >>
    /\ right_image = << >>
    /\ margins = << >>
    /\ image3d = << >>
    /\ all_frames_in_directory = Listing(1, FALSE)
    /\ file_kind \in [Range(all_frames_in_directory) -> {"ok", "cfail", "wfail"}]
    /\ chunk_size = 1
    /\ max_threads = 1
    /\ frame_counter = 0
    /\ threads_count = 0
    /\ src_files = Range(all_frames_in_directory)
    /\ images3d = {}
    /\ write_ok = {}
    /\ run_pc = "start"
    /\ total_frames = 0
    /\ start_frame = 0
    /\ futures = << >>
    /\ next_future = 1
    /\ exc = "none"

\* lines 126-144: the shape, the parallax and the two sampling maps
ShiftMaps ==
    /\ img_pc = "load"
    /\ LET shape == ShapeOf(image)
           rows == 0..(shape.height - 1)
           cols == 0..(shape.width - 1)
       IN  /\ height' = shape.height
           /\ width' = shape.width
           /\ shift_left' = [y \in rows |-> [x \in cols |->
                 ShiftLeftAt(x, Parallax(depth[y][x], PARALLAX_SCALE), shape.width)]]
           /\ shift_right' = [y \in rows |-> [x \in cols |->
                 ShiftRightAt(x, Parallax(depth[y][x], PARALLAX_SCALE), shape.width)]]
           /\ map_y' = [y \in rows |-> [x \in cols |-> y]]
    /\ img_pc' = "remap"
    /\ UNCHANGED <<pipeline, options3d, left_image, right_image, margins, image3d>>

\* lines 146-148: the two eye images
RemapStep ==
    /\ img_pc = "remap"
    /\ left_image' = Remap(image, shift_left, map_y)
    /\ right_image' = Remap(image, shift_right, map_y)
    /\ img_pc' = "correct"
    /\ UNCHANGED <<pipeline, options3d, height, width, shift_left, shift_right,
                   map_y, margins, image3d>>

\* lines 150-154: image_size_correction when both target sizes are set
SizeCorrection ==
    /\ img_pc = "correct"
    /\ IF new_width # 0 /\ new_height # 0
          THEN /\ margins' = Margins(height, width, new_height, new_width)
               /\ left_image' = Canvas(left_image, margins', height, width, new_height, new_width)
               /\ right_image' = Canvas(right_image, margins', height, width, new_height, new_width)
               /\ height' = new_height
               /\ width' = new_width
          ELSE UNCHANGED <<margins, left_image, right_image, height, width>>
    /\ img_pc' = "combine"
    /\ UNCHANGED <<pipeline, options3d, shift_left, shift_right, map_y, image3d>>

\* lines 156-186: the two eye images packed by TYPE3D and LEFT_RIGHT
Combine ==
    /\ img_pc = "combine"
    /\ IF CombineFails(TYPE3D, height, width)
          THEN /\ img_pc' = "error"
               /\ image3d' = image3d
          ELSE /\ img_pc' = "save"
               /\ image3d' = [height |-> Image3dShape(TYPE3D, height, width).height,
                              width |-> Image3dShape(TYPE3D, height, width).width,
                              first |-> IF LEFT_RIGHT = "LEFT" THEN "left" ELSE "right"]
    /\ UNCHANGED <<pipeline, options3d, height, width, shift_left, shift_right,
                   map_y, left_image, right_image, margins>>

\* lines 188-190: cv2.imwrite of image3d to images3d_dir/<frame_name>.jpg;
\* the write raises, or returns False and leaves no file, or replaces the
\* file of that name
SaveImage3d ==
    /\ img_pc = "save"
    /\ LET frame_path == all_frames_in_directory[1]
       IN  CASE file_kind[frame_path] = "cfail" ->
                   /\ img_pc' = "error"
                   /\ UNCHANGED <<images3d, write_ok>>
             [] file_kind[frame_path] = "wfail" ->
                   /\ img_pc' = "saved"
                   /\ UNCHANGED <<images3d, write_ok>>
             [] OTHER ->
                   /\ img_pc' = "saved"
                   /\ images3d' = {o \in images3d : o[1] # frame_name(frame_path)}
                                    \cup {<<frame_name(frame_path), frame_path>>}
                   /\ write_ok' = write_ok \cup {frame_path}
    /\ UNCHANGED <<all_frames_in_directory, file_kind, chunk_size, max_threads,
                   frame_counter, threads_count, src_files, run_pc, total_frames,
                   start_frame, futures, next_future, exc, options3d, height, width,
                   shift_left, shift_right, map_y, left_image, right_image, margins,
                   image3d>>

ImgNext ==
    \/ ShiftMaps
    \/ RemapStep
    \/ SizeCorrection
    \/ Combine
    \/ SaveImage3d

ImgSpec == ImgInit /\ [][ImgNext]_vars

\* ================================================================ claims
\* chunks handed to the executor whose chunk_processing has not ended
Unfinished == {k \in 1..Len(futures) : futures[k].pc \notin {"done", "failed"}}

\* the main thread holds an admission for a chunk it has not submitted yet
Admitted == IF run_pc \in {"admitted", "counted"} THEN 1 ELSE 0

\* chunks admitted and not yet completed
InFlight == Cardinality(Unfinished) + Admitted

\* submitted chunks that have not passed the release of their slot
Unreleased == {k \in 1..Len(futures) : futures[k].pc \notin {"returning", "done", "failed"}}

\* chunks admitted that have not passed the release of their slot
SlotsHeld == Cardinality(Unreleased) + Admitted

\* some chunk has passed the release of its slot
SomeReleased == \E k \in 1..Len(futures) : futures[k].pc \in {"returning", "done"}

RECURSIVE ConcatFrames(_)
ConcatFrames(fs) ==
    IF fs = << >> THEN << >> ELSE ConcatFrames(SubSeq(fs, 1, Len(fs) - 1)) \o fs[Len(fs)].frames

\* the for loop over range(0, total_frames, chunk_size) has run to its end
LoopComplete == run_pc # "start" /\ start_frame >= total_frames

NoFrameFails == \A p \in Range(all_frames_in_directory) : file_kind[p] = "ok"

NoChunkFails ==
    \A p \in Range(all_frames_in_directory) : file_kind[p] \notin {"corrupt", "cfail"}

\* C1: the admission counter stays within 0..max_threads in every state
C1_CounterBounded == 0 <= threads_count /\ threads_count <= max_threads

C1_Witness ==
    /\ max_threads = 2
    /\ threads_count = max_threads
    /\ \E k \in 1..Len(futures) : futures[k].pc = "done"

\* C2 as stated: at most max_threads submitted chunks have not finished
\* chunk_processing
C2_BoundedSubmission == Cardinality(Unfinished) <= max_threads

\* C2 as amended: at most max_threads submitted chunks have not passed
\* their release, at most max_threads chunks run in the executor at once,
\* so at most 2 * max_threads submitted chunks are unfinished; a chunk is
\* submitted only by the main thread holding an admission, which it gets
\* only by incrementing a counter that was below max_threads
C2_BoundedSlots ==
    /\ [](Cardinality(Unreleased) <= max_threads)
    /\ [](Cardinality(Unfinished) <= 2 * max_threads)
    /\ [](Cardinality({k \in 1..Len(futures) :
              futures[k].pc \notin {"queued", "done", "failed"}}) <= max_threads)
    /\ [][Len(futures') > Len(futures) => run_pc = "counted"]_vars
    /\ [][(run_pc # "counted" /\ run_pc' = "counted") => run_pc = "admitted"]_vars
    /\ [][(run_pc # "admitted" /\ run_pc' = "admitted") =>
            (threads_count < max_threads /\ threads_count' = threads_count + 1)]_vars

C2_Witness ==
    /\ max_threads = 2
    /\ Cardinality(Unreleased) = max_threads
    /\ Cardinality(Unfinished) = 2 * max_threads

\* C3: the admission counter equals the number of chunks in flight; a
\* chunk is taken as in flight from its admission to the release of its
\* slot, and only runs without a failing chunk are looked at
C3_CounterIsInFlight == NoChunkFails => threads_count = SlotsHeld

\* C4: when no frame fails the run eventually completes normally with
\* every source frame deleted and every composite written
C4_EventuallyAllProcessed ==
    NoFrameFails ~> (run_pc = "done" /\ src_files = {}
                       /\ write_ok = Range(all_frames_in_directory))

\* C5: the chunks produced so far, concatenated, are the leading part of
\* the listing, each chunk holds 1..chunk_size frames, and once the loop
\* has ended they are the whole listing in ceil(L/C) chunks
C5_Partition ==
    LET L == Len(all_frames_in_directory)
        done == ConcatFrames(futures)
    IN  /\ Len(done) <= L
        /\ done = SubSeq(all_frames_in_directory, 1, Len(done))
        /\ \A k \in 1..Len(futures) :
              /\ Len(futures[k].frames) <= chunk_size
              /\ k < Len(futures) => Len(futures[k].frames) = chunk_size
        /\ LoopComplete =>
              /\ done = all_frames_in_directory
              /\ Len(futures) = (L + chunk_size - 1) \div chunk_size

C5_Witness ==
    /\ LoopComplete
    /\ Len(futures) = 2
    /\ Len(all_frames_in_directory) = 3
    /\ Len(futures[2].frames) = 1

\* C6: a source file is gone only if the write of its composite succeeded
C6_DeleteOnlyAfterWrite ==
    \A p \in Range(all_frames_in_directory) : p \notin src_files => p \in write_ok

\* C7: when a chunk has ended, every frame of it that can be processed
\* has its composite written
C7_GoodFramesWritten ==
    \A k \in 1..Len(futures) :
        futures[k].pc \in {"done", "failed"} =>
            \A p \in Range(futures[k].frames) : file_kind[p] = "ok" => p \in write_ok

\* C8: the step that ends the work of a chunk, by reaching the end of the
\* loop or by an error, decrements the admission counter as the successful
\* completion does
C8_ReleaseOnFailure ==
    [][\A k \in 1..Len(futures) :
          (futures[k].pc \notin {"returning", "done", "failed"}
              /\ futures'[k].pc \in {"returning", "failed"})
             => threads_count' = (IF threads_count - 1 > 1 THEN threads_count - 1 ELSE 1)]_vars

\* C9: the run never ends with the error of a frame
C9_FrameErrorContained == ~(run_pc = "raised" /\ exc = "FrameError")

\* C10: run_processing has returned only when every submitted chunk has
\* ended
C10_DoneAfterAllChunks ==
    run_pc \in {"returned", "done"} =>
        \A k \in 1..Len(futures) : futures[k].pc \in {"done", "failed"}

C10_Witness ==
    /\ run_pc = "done"
    /\ Len(futures) >= 2

\* C11: a frame that fails before the write step, in the decode and
\* depth step or in the warp and composite step, keeps its source file and
\* no output file is produced from it
C11_FailedFrameUntouched ==
    \A p \in Range(all_frames_in_directory) :
        file_kind[p] \in {"corrupt", "cfail"} =>
            /\ p \in src_files
            /\ p \notin write_ok
            /\ \A o \in images3d : o[2] # p

C11_Witness ==
    /\ \E k \in 1..Len(futures) :
          /\ futures[k].pc = "failed"
          /\ file_kind[futures[k].frames[futures[k].i]] = "corrupt"
    /\ \E k \in 1..Len(futures) :
          /\ futures[k].pc = "failed"
          /\ file_kind[futures[k].frames[futures[k].i]] = "cfail"
    /\ images3d # {}
    /\ run_pc = "raised"

\* C12: every frame whose write succeeded has an output file of its own,
\* so the output directory holds as many files as there were successful
\* writes
C12_OneOutputPerFrame ==
    /\ Cardinality(images3d) = Cardinality(write_ok)
    /\ \A p \in write_ok : <<frame_name(p), p>> \in images3d

\* the chunk of k is between two steps of one of its frames
Working(k) == futures[k].pc \in {"depth", "image3d", "remove"}

\* C17: a worker handles the frames of its chunk one at a time in list
\* order: every frame before the current one has ended its iteration (its
\* source is gone), every frame after it is untouched, and the current
\* index only ever moves to the next frame, from the last step of the
\* current one
C17_SequentialInChunk ==
    /\ [](\A k \in 1..Len(futures) :
            LET f == futures[k]
            IN  /\ f.i \in 1..Len(f.frames)
                /\ \A j \in 1..Len(f.frames) :
                      /\ (j < f.i) => f.frames[j] \notin src_files
                      /\ (j > f.i) => (f.frames[j] \in src_files /\ f.frames[j] \notin write_ok)
                      /\ (j = f.i /\ f.pc \in {"queued", "depth"}) =>
                            (f.frames[j] \in src_files /\ f.frames[j] \notin write_ok))
    /\ [][\A k \in 1..Len(futures) :
            futures'[k].i # futures[k].i =>
               /\ futures'[k].i = futures[k].i + 1
               /\ futures'[k].pc = "depth"
               /\ \/ futures[k].pc = "remove"
                  \/ (futures[k].pc = "depth" /\ futures[k].frames[futures[k].i] \notin src_files)]_vars

C17_Witness ==
    \E k \in 1..Len(futures) :
        /\ Len(futures[k].frames) = 2
        /\ futures[k].i = 2
        /\ futures[k].pc = "image3d"
        /\ futures[k].frames[1] \in write_ok

\* C18 as stated: when no chunk fails the counter is never less than the
\* number of chunks admitted and not yet completed, and at most one more
C18_CounterCoversInFlight ==
    NoChunkFails => (InFlight <= threads_count /\ threads_count <= InFlight + 1)

\* C18 as amended: when no chunk fails the counter is the number of chunks
\* that hold a slot (admitted, release not passed) or one more, never
\* returns to 0 once raised, over-counts by one from the first drain of
\* the pool on, and then leaves room for at most max_threads - 1 chunks
\* holding a slot
C18_OverCountByOne ==
    /\ [](NoChunkFails =>
            /\ SlotsHeld <= threads_count
            /\ threads_count <= SlotsHeld + 1
            /\ (SomeReleased /\ SlotsHeld = 0) => threads_count = 1
            /\ threads_count = SlotsHeld + 1 => SlotsHeld <= max_threads - 1)
    /\ [][NoChunkFails =>
            /\ threads_count > 0 => threads_count' > 0
            /\ threads_count = SlotsHeld + 1 => threads_count' = SlotsHeld' + 1]_vars

C18_Witness ==
    /\ NoChunkFails
    /\ max_threads = 2
    /\ threads_count = 2
    /\ SlotsHeld = 1
    /\ InFlight = 2
    /\ SomeReleased

\* C19: no frame path is in two chunks or twice in one chunk, so at most
\* one worker is on a given path, and a removal always finds its file
C19_ExclusiveFrames ==
    /\ [](\A k1, k2 \in 1..Len(futures) :
            \A j1 \in 1..Len(futures[k1].frames), j2 \in 1..Len(futures[k2].frames) :
                futures[k1].frames[j1] = futures[k2].frames[j2] => (k1 = k2 /\ j1 = j2))
    /\ [](\A k1, k2 \in 1..Len(futures) :
            (k1 # k2 /\ Working(k1) /\ Working(k2)) =>
                futures[k1].frames[futures[k1].i] # futures[k2].frames[futures[k2].i])
    /\ [][\A p \in Range(all_frames_in_directory) :
            (p \in src_files /\ p \notin src_files') =>
                Cardinality({k \in 1..Len(futures) :
                    futures[k].pc = "remove" /\ futures[k].frames[futures[k].i] = p}) = 1]_vars

C19_Witness ==
    \E k1, k2 \in 1..Len(futures) :
        /\ k1 # k2
        /\ Working(k1)
        /\ futures[k2].pc = "remove"
        /\ Len(futures[k1].frames) = 2

\* the frames of the chunk the main thread is extracting: counted under
\* the lock, slice not yet handed to the executor
BeingExtracted ==
    IF run_pc = "counted"
    THEN Min(chunk_size, Len(all_frames_in_directory) - start_frame)
    ELSE 0

\* C20: frame_counter is the number of frames in the chunks extracted so
\* far (the one being extracted included), changes only in the locked
\* step of extract_frames, by the size of that chunk, and is total_frames
\* once the last chunk has been extracted
C20_FrameCounter ==
    /\ [](frame_counter = Len(ConcatFrames(futures)) + BeingExtracted)
    /\ [](LoopComplete => frame_counter = total_frames)
    /\ [][frame_counter' # frame_counter =>
            /\ run_pc = "admitted" /\ run_pc' = "counted"
            /\ frame_counter' = frame_counter
                  + Min(chunk_size, Len(all_frames_in_directory) - start_frame)]_vars
    /\ [][Len(futures') > Len(futures) =>
            /\ frame_counter' = frame_counter
            /\ frame_counter' = Len(ConcatFrames(futures'))]_vars

C20_Witness ==
    /\ LoopComplete
    /\ Len(futures) = 2
    /\ frame_counter = 3
    /\ Len(futures[2].frames) = 1

\* the sampling maps of image3d_processing have been computed
MapsComputed == img_pc \in {"remap", "correct", "combine", "save", "saved", "error"}

\* C13: the composite has the single-eye shape for HSBS and HOU, twice
\* the width for FSBS and twice the height for FOU
C13_CompositeShape ==
    img_pc \in {"save", "saved"} =>
          /\ TYPE3D = "HSBS" => (image3d.width = width /\ image3d.height = height)
          /\ TYPE3D = "HOU"  => (image3d.width = width /\ image3d.height = height)
          /\ TYPE3D = "FSBS" => (image3d.width = 2 * width /\ image3d.height = height)
          /\ TYPE3D = "FOU"  => (image3d.width = width /\ image3d.height = 2 * height)

\* C14: the margins of image_size_correction fill the target exactly, the
\* leading one is the floor of half the difference and the trailing one is
\* equal to it or one more; the eye image sits at [top, left] of a black
\* canvas of the target size; 100x60 into 101x61 gives 0, 1, 0, 1
C14_CenteringOffsets ==
    /\ Margins(60, 100, 61, 101) = [top |-> 0, bottom |-> 1, left |-> 0, right |-> 1]
    /\ (img_pc \in {"combine", "save", "saved", "error"} /\ new_width # 0 /\ new_height # 0) =>
          LET H == ShapeOf(image).height
              W == ShapeOf(image).width
              eye == Remap(image, shift_left, map_y)
          IN  /\ margins.top >= 0 /\ margins.left >= 0
              /\ margins.top + H + margins.bottom = new_height
              /\ margins.left + W + margins.right = new_width
              /\ margins.bottom - margins.top \in {0, 1}
              /\ margins.right - margins.left \in {0, 1}
              /\ ShapeOf(left_image) = [height |-> new_height, width |-> new_width]
              /\ ShapeOf(right_image) = [height |-> new_height, width |-> new_width]
              /\ \A y \in 0..(new_height - 1), x \in 0..(new_width - 1) :
                    left_image[y][x] =
                       IF y - margins.top \in 0..(H - 1) /\ x - margins.left \in 0..(W - 1)
                       THEN eye[y - margins.top][x - margins.left]
                       ELSE Black

C14_Witness ==
    /\ img_pc = "combine"
    /\ new_height = ShapeOf(image).height + 1
    /\ new_width = ShapeOf(image).width + 1
    /\ margins = [top |-> 0, bottom |-> 1, left |-> 0, right |-> 1]

\* C15: every x coordinate of both sampling maps lies in [0, width - 1]
\* and the y coordinate is the output row
C15_SamplesInBounds ==
    MapsComputed =>
        \A y \in DOMAIN image : \A x \in DOMAIN image[y] :
            /\ 0 <= shift_left[y][x]
            /\ shift_left[y][x] <= (ShapeOf(image).width - 1) * DepthMax
            /\ 0 <= shift_right[y][x]
            /\ shift_right[y][x] <= (ShapeOf(image).width - 1) * DepthMax
            /\ map_y[y][x] = y

C15_Witness ==
    /\ MapsComputed
    /\ PARALLAX_SCALE > ShapeOf(image).width
    /\ \E y \in DOMAIN image : \E x \in DOMAIN image[y] :
          /\ depth[y][x] = DepthMax
          /\ shift_left[y][x] = (ShapeOf(image).width - 1) * DepthMax
          /\ shift_right[y][x] = 0

\* C16: with PARALLAX_SCALE = 0 both sampling maps are the identity and
\* both eye images are the source image
C16_ZeroScaleIdentity ==
    /\ (PARALLAX_SCALE = 0 /\ MapsComputed) =>
          \A y \in DOMAIN image : \A x \in DOMAIN image[y] :
              /\ shift_left[y][x] = x * DepthMax
              /\ shift_right[y][x] = x * DepthMax
              /\ map_y[y][x] = y
    /\ (PARALLAX_SCALE = 0 /\ img_pc = "correct") =>
          (left_image = image /\ right_image = image)

C16_Witness ==
    /\ PARALLAX_SCALE = 0
    /\ img_pc = "correct"
    /\ ShapeOf(image).width >= 2
    /\ \E y \in DOMAIN image : \E x \in DOMAIN image[y] : depth[y][x] = DepthMax
    /\ left_image = image
====
